---- MODULE Spec2Model ----
(***************************************************************************)
(* Ingredient reservation and retry protocol of Figueira's Hideaway.       *)
(*                                                                         *)
(* pantry-service: handleIngredientRequest (one PostgreSQL transaction per *)
(* reservation attempt, SELECT ... FOR UPDATE row locks), buyFromMarket    *)
(* (unbounded purchase loop with exponential backoff) and                  *)
(* scheduleIngredientRetry (process-local retry counter, setTimeout).      *)
(* kitchen-service: handleIngredientReady, simulateCooking, completeOrder. *)
(*                                                                         *)
(* Every await of the source is a step boundary: a task of the event loop  *)
(* is one invocation of handleIngredientRequest, and tasks interleave at   *)
(* their database calls, market calls and sleeps.                          *)
(***************************************************************************)
EXTENDS Integers, Sequences, FiniteSets, Bags, TLC

VARIABLES
    stock,          \* pantry_stock.quantity, committed, per ingredient
    rows,           \* ingredients that have a committed pantry_stock row
    purchases,      \* market_purchases, committed rows (a bag of records)
    status,         \* orders.status, per order
    recipe,         \* recipeSnapshot of each order's ingredient request
    market,         \* the quantitySold values the market may answer, per ingredient
    retryAttempts,  \* PantryService.retryAttempts : Map<orderId, number>
    task,           \* the invocations of handleIngredientRequest (locals + open transaction)
    delivered,      \* how often the broker has delivered each order's request
    readyQ,         \* ingredient_ready messages in flight (a bag of messages)
    cooking,        \* pending simulateCooking timers, per order
    failed,         \* history: failed attempts (calls of scheduleIngredientRetry) per order
    commits,        \* history: committed reservation transactions per order
    notified,       \* history: ready notifications published per order
    emptyLeft,      \* empty answers still possible from a market that has something to sell
    faultsLeft,     \* database / publish errors the environment may still inject
    redeliveriesLeft, \* repeated deliveries of a request the broker may still make
    conn,           \* per service: the broker channel, the running setupRabbitMQ, its 5 s timer
    consumer,       \* per delivered request: the pantry consumer callback and its ack / nack
    readyAcks,      \* per order: the kitchen consumer's acks / nacks of ingredient_ready messages
    poison,         \* per service: malformed messages queued, and how they were settled
    requests        \* per order: the ingredient requests that createOrder has published

vars == <<stock, rows, purchases, status, recipe, market, retryAttempts, task,
          delivered, readyQ, cooking, failed, commits, notified, emptyLeft, faultsLeft,
          redeliveriesLeft, conn, consumer, readyAcks, poison, requests>>

\* the state of the messaging side
brokerVars == <<conn, consumer, readyAcks, poison, requests>>

----------------------------------------------------------------------------
(* Bounds of the model *)

MaxSold == 1
MaxRedeliveries == 1
MaxFaults == 2
MaxEmpty == 1
MaxMalformed == 1
MaxOffer == 2
MaxMisses == 7

(* Program constants *)

MAX_RETRY_ATTEMPTS == 5
BACKOFF_FLOOR == 1000
BACKOFF_CEILING == 60000
DEFAULT_DELAY == 600000

Orders == {1, 2}
Ingredients == {"rice", "lemon", "meat", "tomato", "cheese"}
Services == {"pantry", "kitchen"}
Chains == Orders \X (1..(1 + MaxRedeliveries))

OrderStatus == {"pending", "waiting_ingredients", "preparing", "completed", "cancelled"}

----------------------------------------------------------------------------
(* recipes.ingredients is a JSONB column: PostgreSQL stores the keys of a  *)
(* JSONB object sorted by length, then bytewise, whatever their order in   *)
(* the text that was inserted. createOrder reads the recipe back from that *)
(* column and requestIngredients / JSON.parse / Object.entries keep the    *)
(* order they are given.                                                   *)

KeyLen == [rice |-> 4, lemon |-> 5, meat |-> 4, tomato |-> 6, cheese |-> 6]
ByteRank == [cheese |-> 1, lemon |-> 2, meat |-> 3, rice |-> 4, tomato |-> 5]

JsonbBefore(a, b) ==
    \/ KeyLen[a] < KeyLen[b]
    \/ KeyLen[a] = KeyLen[b] /\ ByteRank[a] < ByteRank[b]

RECURSIVE InsertKey(_, _)
InsertKey(e, s) ==
    IF s = <<>> THEN <<e>>
    ELSE IF JsonbBefore(e[1], Head(s)[1]) THEN <<e>> \o s
    ELSE <<Head(s)>> \o InsertKey(e, Tail(s))

RECURSIVE SortKeys(_)
SortKeys(s) == IF s = <<>> THEN <<>> ELSE InsertKey(Head(s), SortKeys(Tail(s)))

\* a plain JSON (or text) column would keep the key order of the inserted text
TextOrder(text) == text

\* INSERT INTO recipes (..., ingredients JSONB) followed by SELECT * FROM recipes
JsonbStore(text) == SortKeys(text)

----------------------------------------------------------------------------
(* Locals of one invocation of handleIngredientRequest, with the writes of *)
(* its open transaction (visible to nobody else before COMMIT).            *)

Fresh(pcv) ==
    [pc |-> pcv, idx |-> 1, currentStock |-> 0,
     quantity |-> 0, totalPurchased |-> 0, backoffDelay |-> 0,
     quantitySold |-> 0,  \* marketData.quantitySold of the last call of the running loop
     allIngredientsObtainable |-> TRUE,
     held |-> {}, txSet |-> <<>>,
     txIns |-> {}, txDec |-> {}, txPurch |-> EmptyBag, loopPurch |-> EmptyBag,
     availableIngredients |-> <<>>,
     requestId |-> <<>>,  \* message.requestId, set when the message is delivered
     orderId |-> 0,            \* message.orderId, set when the message is delivered
     recipeSnapshot |-> <<>>,  \* message.recipeSnapshot, set when the message is delivered
     aborted |-> FALSE,   \* the transaction is in PostgreSQL's aborted state
     delay |-> 0,         \* the delay of the pending retry timer
     discarded |-> 0,     \* history: decrements undone by the ROLLBACK that ended the last attempt
     cStock |-> [i \in Ingredients |-> 0],  \* history: what this attempt's COMMIT added to each quantity
     cPurch |-> EmptyBag]                   \* history: the purchase records this attempt's COMMIT added

OrderOf(c) == c[1]
\* requestIngredients: const requestId = uuidv4(), one id per published request
RequestId(o) == <<"request", o>>
\* requestIngredients: const message = { requestId, orderId, recipeSnapshot: recipe.ingredients }
IngredientRequest(o) ==
    [requestId |-> RequestId(o), orderId |-> o, recipeSnapshot |-> recipe[o]]
\* const { requestId, orderId, recipeSnapshot } = message
Snapshot(c) == task[c].recipeSnapshot
Ing(c) == Snapshot(c)[task[c].idx][1]
Req(c) == Snapshot(c)[task[c].idx][2]
Keys(o) == {recipe[o][n][1] : n \in 1..Len(recipe[o])}
ReqOf(o, i) == LET n == CHOOSE n \in 1..Len(recipe[o]) : recipe[o][n][1] = i
               IN recipe[o][n][2]

InTransaction(t) == t.pc \in {"select", "buy", "sleep", "write", "decrement", "commit"}
Running(t) == InTransaction(t) \/ t.pc = "notify"

\* retryAttempts.get(orderId) || 0
Get(o) == IF o \in DOMAIN retryAttempts THEN retryAttempts[o] ELSE 0
\* retryAttempts.set(orderId, n)
Put(o, n) == [x \in DOMAIN retryAttempts \cup {o} |-> IF x = o THEN n ELSE retryAttempts[x]]
\* retryAttempts.delete(orderId)
Remove(o) == [x \in DOMAIN retryAttempts \ {o} |-> retryAttempts[x]]

\* the quantity the open transaction has written to the row of ingredient i
Written(t, i, q) == [x \in DOMAIN t.txSet \cup {i} |-> IF x = i THEN q ELSE t.txSet[x]]

----------------------------------------------------------------------------
(* Row locks. SELECT ... FOR UPDATE waits while another open transaction   *)
(* holds the lock of a committed row; a row that has no committed version  *)
(* is not seen and not locked.                                             *)

\* a plain SELECT, without FOR UPDATE, never waits
NoRowLock(c, i) == TRUE

\* a lock on the whole table in place of the row
TableLockFree(c, i) == \A d \in Chains \ {c} : task[d].held = {}

\* no other open transaction holds the row lock of ingredient i
RowLockFree(c, i) == \A d \in Chains \ {c} : i \notin task[d].held

SelectBlocked(c, i) == i \in rows /\ ~RowLockFree(c, i)

\* INSERT waits on another transaction's uncommitted row with the same unique key
InsertBlocked(c, i) == \E d \in Chains \ {c} : i \in task[d].txIns

----------------------------------------------------------------------------
(* scheduleIngredientRetry, reached from the catch block (and from the     *)
(* insufficient branch) after ROLLBACK has discarded the transaction.      *)

\* ROLLBACK: the writes of the open transaction are dropped, its row locks released
RolledBack(t, pcv) ==
    [Fresh(pcv) EXCEPT !.discarded = Cardinality(t.txDec), !.requestId = t.requestId,
                       !.orderId = t.orderId, !.recipeSnapshot = t.recipeSnapshot]

\* RETRY_DELAYS = [30000, 60000, 120000, 300000, 600000], indexed from 0 in the source
RETRY_DELAYS == <<30000, 60000, 120000, 300000, 600000>>

\* a delay table indexed with nextAttempt instead of currentAttempts
DelayOfNext(currentAttempts) ==
    IF currentAttempts + 2 <= Len(RETRY_DELAYS) THEN RETRY_DELAYS[currentAttempts + 2]
    ELSE DEFAULT_DELAY

\* const delay = this.RETRY_DELAYS[currentAttempts] || 600000
Delay(currentAttempts) ==
    IF currentAttempts + 1 <= Len(RETRY_DELAYS) THEN RETRY_DELAYS[currentAttempts + 1]
    ELSE DEFAULT_DELAY

\* a cap that is reached one retry early
RetriesExhaustedEarly(currentAttempts) == currentAttempts + 1 >= MAX_RETRY_ATTEMPTS

\* an off-by-one in the comparison
RetriesExhaustedLate(currentAttempts) == currentAttempts > MAX_RETRY_ATTEMPTS

\* if (currentAttempts >= this.MAX_RETRY_ATTEMPTS)
RetriesExhausted(currentAttempts) == currentAttempts >= MAX_RETRY_ATTEMPTS

\* a handler that acknowledges at every return, also when a timer has invoked it
SettleAlways(k) == [k EXCEPT !.handling = FALSE, !.acks = @ + 1]

\* await this.handleIngredientRequest(message); this.rabbitChannel?.ack(msg): the consumer
\* callback acknowledges when the invocation it awaits returns; an invocation made by
\* the retry timer has no message to settle
SettleOnReturn(k) == IF k.handling THEN [k EXCEPT !.handling = FALSE, !.acks = @ + 1] ELSE k

\* handleIngredientRequest returns to whoever awaited it
Return(c) ==
    /\ consumer' = [consumer EXCEPT ![c] = SettleOnReturn(@)]
    /\ UNCHANGED <<conn, readyAcks, poison, requests>>

ScheduleIngredientRetry(c, st) ==
    LET o == OrderOf(c)
        currentAttempts == Get(o)
    IN /\ failed' = [failed EXCEPT ![o] = @ + 1]
       /\ Return(c)
       /\ IF RetriesExhausted(currentAttempts)
          THEN /\ status' = [st EXCEPT ![o] = "cancelled"]
               /\ retryAttempts' = Remove(o)
               /\ task' = [task EXCEPT ![c] = RolledBack(task[c], "done")]
          ELSE /\ status' = st
               /\ retryAttempts' = Put(o, currentAttempts + 1)
               /\ task' = [task EXCEPT ![c] = [RolledBack(task[c], "timer") EXCEPT
                                                   !.delay = Delay(currentAttempts)]]

\* catch (error) { ROLLBACK; scheduleIngredientRetry(...) }
Catch(c) ==
    /\ ScheduleIngredientRetry(c, status)
    /\ UNCHANGED <<stock, rows, purchases>>

\* else { ROLLBACK; updateOrderStatus(orderId, 'waiting_ingredients'); scheduleIngredientRetry(...) }
Insufficient(c) ==
    /\ ScheduleIngredientRetry(c, [status EXCEPT ![OrderOf(c)] = "waiting_ingredients"])
    /\ UNCHANGED <<stock, rows, purchases>>

----------------------------------------------------------------------------
(* handleIngredientRequest, phase 1: one loop iteration per ingredient.    *)

Shortfall(currentStock, requiredQuantity) == currentStock < requiredQuantity

\* end of a loop iteration: ingredientStocks[ingredient] = ..., the check after the
\* purchases, and the next iteration or the start of phase 2
NextIngredient(c, t) ==
    LET ok == t.allIngredientsObtainable /\ ~Shortfall(t.currentStock, Req(c))
        u == [t EXCEPT !.allIngredientsObtainable = ok, !.currentStock = 0,
                       !.quantity = 0, !.totalPurchased = 0, !.backoffDelay = 0,
                       !.quantitySold = 0,
                       !.loopPurch = EmptyBag]
    IN IF t.idx < Len(Snapshot(c))
       THEN [u EXCEPT !.pc = "select", !.idx = t.idx + 1]
       ELSE [u EXCEPT !.pc = "decrement", !.idx = 1]

\* the consumer callback of setupRabbitMQ: JSON.parse, handleIngredientRequest, BEGIN
Deliver(o) ==
    /\ status[o] # "none"
    /\ requests[o] > 0
    /\ conn["pantry"].link
    /\ consumer' = [consumer EXCEPT ![<<o, delivered[o] + 1>>].handling = TRUE]
    /\ UNCHANGED <<conn, readyAcks, poison, requests>>
    /\ delivered[o] <= MaxRedeliveries
    /\ delivered[o] > 0 => redeliveriesLeft > 0
    /\ redeliveriesLeft' = IF delivered[o] > 0 THEN redeliveriesLeft - 1 ELSE redeliveriesLeft
    /\ delivered' = [delivered EXCEPT ![o] = @ + 1]
    /\ task' = [task EXCEPT ![<<o, delivered[o] + 1>>] =
                    [Fresh("select") EXCEPT !.requestId = IngredientRequest(o).requestId,
                                            !.orderId = IngredientRequest(o).orderId,
                                            !.recipeSnapshot = IngredientRequest(o).recipeSnapshot]]
    /\ UNCHANGED <<stock, rows, purchases, status, recipe, market, retryAttempts,
                   readyQ, cooking, failed, faultsLeft, commits, notified, emptyLeft>>

\* SELECT * FROM pantry_stock WHERE ingredient = $1 FOR UPDATE
Select(c) ==
    LET t == task[c]
        i == Ing(c)
        found == i \in rows
        cur == IF found THEN stock[i] ELSE 0
        u == [t EXCEPT !.held = IF found THEN @ \cup {i} ELSE @, !.currentStock = cur]
    IN /\ t.pc = "select"
       /\ UNCHANGED brokerVars
       /\ ~SelectBlocked(c, i)
       /\ task' = [task EXCEPT ![c] =
             IF Shortfall(cur, Req(c))
             THEN [u EXCEPT !.pc = "buy", !.quantity = Req(c) - cur,
                            !.totalPurchased = 0, !.backoffDelay = BACKOFF_FLOOR]
             ELSE NextIngredient(c, u)]
       /\ UNCHANGED <<stock, rows, purchases, status, recipe, market, retryAttempts,
                      delivered, readyQ, cooking, failed, commits, notified, emptyLeft, faultsLeft,
          redeliveriesLeft>>

----------------------------------------------------------------------------
(* buyFromMarket: while (totalPurchased < quantity) { call; record; sleep } *)

\* a loop that counts what it asked for instead of what the market sold
CountRequested(t, quantitySold) == t.quantity - t.totalPurchased

\* totalPurchased += marketData.quantitySold
CountSold(t, quantitySold) == quantitySold

\* INSERT INTO market_purchases (ingredient, quantity_requested, quantity_sold, ...)
PurchaseRecord(c, t, quantitySold) ==
    [ingredient |-> Ing(c), quantity_requested |-> t.quantity - t.totalPurchased,
     quantity_sold |-> quantitySold]

\* a loop that gives up after one call
GiveUp(totalPurchased, quantity) == FALSE

\* while (totalPurchased < quantity)
KeepBuying(totalPurchased, quantity) == totalPurchased < quantity

\* after the call: leave the loop, or sleep and call again
AfterCall(t) ==
    IF KeepBuying(t.totalPurchased, t.quantity)
    THEN [t EXCEPT !.pc = "sleep"]
    ELSE [t EXCEPT !.pc = "write", !.currentStock = @ + t.totalPurchased]

\* axios.get(.../buy?ingredient=...) answers quantitySold (a failed call counts as an
\* empty answer: the loop's own try/catch swallows it); a purchase is inserted into
\* market_purchases, inside the caller's transaction, and added to totalPurchased
MarketCall(c) ==
    LET t == task[c] IN
    /\ t.pc = "buy"
    /\ UNCHANGED brokerVars
    /\ \E quantitySold \in market[Ing(c)] :
         /\ (quantitySold = 0 /\ market[Ing(c)] # {0}) => emptyLeft > 0
         /\ emptyLeft' = IF quantitySold = 0 /\ market[Ing(c)] # {0}
                         THEN emptyLeft - 1 ELSE emptyLeft
         /\ task' = [task EXCEPT ![c] =
               IF quantitySold > 0 /\ ~t.aborted
               THEN AfterCall([t EXCEPT
                       !.txPurch = @ (+) SetToBag({PurchaseRecord(c, t, quantitySold)}),
                       !.loopPurch = @ (+) SetToBag({PurchaseRecord(c, t, quantitySold)}),
                       !.totalPurchased = @ + CountSold(t, quantitySold),
                       !.quantitySold = quantitySold,
                       !.backoffDelay = BACKOFF_FLOOR])
               ELSE AfterCall([t EXCEPT !.quantitySold = 0])]
    /\ UNCHANGED <<stock, rows, purchases, status, recipe, market, retryAttempts,
                   delivered, readyQ, cooking, failed, faultsLeft, commits, notified,
                   redeliveriesLeft>>

\* the INSERT INTO market_purchases of a non-empty answer throws: the error is caught by
\* the try/catch inside the loop, nothing is recorded or counted, and PostgreSQL leaves
\* the transaction aborted, so that every later INSERT of the loop throws as well
PurchaseInsertFails(c) ==
    LET t == task[c] IN
    /\ t.pc = "buy"
    /\ ~t.aborted
    /\ UNCHANGED brokerVars
    /\ faultsLeft > 0
    /\ \E quantitySold \in market[Ing(c)] : quantitySold > 0
    /\ faultsLeft' = faultsLeft - 1
    /\ task' = [task EXCEPT ![c] = AfterCall([t EXCEPT !.aborted = TRUE])]
    /\ UNCHANGED <<stock, rows, purchases, status, recipe, market, retryAttempts,
                   delivered, readyQ, cooking, failed, commits, notified, redeliveriesLeft, emptyLeft>>

\* a backoff that doubles without a ceiling
DoubleUncapped(backoffDelay) == backoffDelay * 2

\* Math.min(backoffDelay * 2, 60000)
NextBackoff(backoffDelay) ==
    IF backoffDelay * 2 < BACKOFF_CEILING THEN backoffDelay * 2 ELSE BACKOFF_CEILING

\* await this.sleep(backoffDelay); backoffDelay = Math.min(backoffDelay * 2, 60000)
Sleep(c) ==
    LET t == task[c]
    IN /\ t.pc = "sleep"
       /\ UNCHANGED brokerVars
       /\ task' = [task EXCEPT ![c] =
             [t EXCEPT !.pc = "buy", !.quantitySold = 0,
                       !.backoffDelay = NextBackoff(t.backoffDelay)]]
       /\ UNCHANGED <<stock, rows, purchases, status, recipe, market, retryAttempts,
                      delivered, readyQ, cooking, failed, faultsLeft, commits, notified, redeliveriesLeft, emptyLeft>>

\* UPDATE pantry_stock SET quantity = $1 (the row was found) or INSERT INTO pantry_stock
\* (it was not). The INSERT of a key that another transaction has committed since
\* violates the UNIQUE constraint and throws into the catch block.
Write(c) ==
    LET t == task[c]
        i == Ing(c)
    IN /\ t.pc = "write"
       /\ IF i \in t.held
          THEN /\ task' = [task EXCEPT ![c] =
                    NextIngredient(c, [t EXCEPT !.txSet = Written(t, i, t.currentStock)])]
               /\ UNCHANGED <<stock, rows, purchases, status, retryAttempts, failed>>
               /\ UNCHANGED brokerVars
          ELSE /\ ~InsertBlocked(c, i)
               /\ IF i \in rows
                  THEN Catch(c)
                  ELSE /\ task' = [task EXCEPT ![c] =
                            NextIngredient(c, [t EXCEPT !.txSet = Written(t, i, t.currentStock),
                                                        !.txIns = @ \cup {i},
                                                        !.held = @ \cup {i}])]
                       /\ UNCHANGED <<stock, rows, purchases, status, retryAttempts, failed>>
                       /\ UNCHANGED brokerVars
       /\ UNCHANGED <<recipe, market, delivered, readyQ, cooking, faultsLeft, commits, notified, redeliveriesLeft, emptyLeft>>

----------------------------------------------------------------------------
(* handleIngredientRequest, phase 2 and the failure paths.                 *)

\* a decrement issued on the pool (this.db.query) would commit on its own
DecrementAutocommit(c, i, r) == [stock EXCEPT ![i] = @ - r]

\* the decrement is a statement of the open transaction (client.query): the committed
\* ledger does not change before COMMIT
DecrementInTransaction(c, i, r) == stock

\* a notification that reports the quantity on hand instead of the quantity reserved
AvailableOnHand(t, i, r) ==
    [x \in DOMAIN t.availableIngredients \cup {i} |->
        IF x = i THEN stock[i] ELSE t.availableIngredients[x]]

\* availableIngredients[ingredient] = stockInfo.required
Available(t, i, r) ==
    [x \in DOMAIN t.availableIngredients \cup {i} |->
        IF x = i THEN r ELSE t.availableIngredients[x]]

\* if (allIngredientsObtainable): UPDATE pantry_stock SET quantity = quantity - $1, one
\* ingredient per step; else the insufficient branch
Decrement(c) ==
    LET t == task[c]
        i == Ing(c)
    IN /\ t.pc = "decrement"
       /\ IF t.allIngredientsObtainable
          THEN /\ task' = [task EXCEPT ![c] =
                    [t EXCEPT !.txDec = @ \cup {i},
                              !.availableIngredients = Available(t, i, Req(c)),
                              !.idx = IF t.idx < Len(Snapshot(c)) THEN t.idx + 1 ELSE 1,
                              !.pc = IF t.idx < Len(Snapshot(c)) THEN "decrement" ELSE "commit"]]
               /\ stock' = DecrementInTransaction(c, i, Req(c))
               /\ UNCHANGED <<rows, purchases, status, retryAttempts, failed>>
               /\ UNCHANGED brokerVars
          ELSE Insufficient(c)
       /\ UNCHANGED <<recipe, market, delivered, readyQ, cooking, faultsLeft, commits, notified, redeliveriesLeft, emptyLeft>>

\* a commit that loses the quantity the transaction bought for the row
CommittedWithoutTopUp(o, t, i) ==
    stock[i] - (IF i \in t.txDec THEN ReqOf(o, i) ELSE 0)

\* the committed quantity of ingredient i once transaction t commits: the value of
\* "SET quantity = $1" (or of the INSERT) if the row was topped up, minus the
\* "quantity - $1" of phase 2
CommittedQuantity(o, t, i) ==
    (IF i \in DOMAIN t.txSet THEN t.txSet[i] ELSE stock[i])
    - (IF i \in t.txDec THEN ReqOf(o, i) ELSE 0)

\* COMMIT: the stock writes and the purchase records of the transaction become visible
\* together and the row locks are released
Commit(c) ==
    LET t == task[c]
        o == OrderOf(c)
    IN /\ t.pc = "commit"
       /\ UNCHANGED brokerVars
       /\ stock' = [i \in Ingredients |->
                      IF i \in Keys(o) THEN CommittedQuantity(o, t, i) ELSE stock[i]]
       /\ rows' = rows \cup t.txIns
       /\ purchases' = purchases (+) t.txPurch
       /\ task' = [task EXCEPT ![c] =
             [Fresh("notify") EXCEPT
                 !.availableIngredients = t.availableIngredients,
                 !.requestId = t.requestId,
                 !.orderId = t.orderId,
                 !.recipeSnapshot = t.recipeSnapshot,
                 !.cStock = [i \in Ingredients |-> stock'[i] - stock[i]],
                 !.cPurch = t.txPurch]]
       /\ commits' = [commits EXCEPT ![o] = @ + 1]
       /\ UNCHANGED <<status, recipe, market, retryAttempts, delivered, readyQ, cooking,
                      failed, faultsLeft, notified, redeliveriesLeft, emptyLeft>>

\* const message = { requestId, orderId, availableIngredients }
ReadyMessage(c) ==
    [requestId |-> task[c].requestId, orderId |-> OrderOf(c),
     availableIngredients |-> task[c].availableIngredients]

\* notifyIngredientsReady publishes {requestId, orderId, availableIngredients}; then
\* retryAttempts.delete(orderId), and the invocation returns
NotifyIngredientsReady(c) ==
    LET o == OrderOf(c) IN
    /\ task[c].pc = "notify"
    /\ conn["pantry"].link
    /\ Return(c)
    /\ readyQ' = readyQ (+) SetToBag({ReadyMessage(c)})
    /\ notified' = [notified EXCEPT ![o] = @ + 1]
    /\ retryAttempts' = Remove(o)
    /\ task' = [task EXCEPT ![c] = Fresh("done")]
    /\ UNCHANGED <<stock, rows, purchases, status, recipe, market, delivered, cooking,
                   failed, faultsLeft, commits, redeliveriesLeft, emptyLeft>>

\* notifyIngredientsReady throws (no channel, or publish on a closed channel): the
\* catch block runs after COMMIT, its ROLLBACK has nothing to undo
NotifyFails(c) ==
    /\ task[c].pc = "notify"
    /\ conn["pantry"].link => faultsLeft > 0
    /\ faultsLeft' = IF conn["pantry"].link THEN faultsLeft - 1 ELSE faultsLeft
    /\ Catch(c)
    /\ UNCHANGED <<recipe, market, delivered, readyQ, cooking, commits, notified, redeliveriesLeft, emptyLeft>>

\* a statement of the transaction (SELECT FOR UPDATE, UPDATE, INSERT, COMMIT) throws
QueryFails(c) ==
    /\ task[c].pc \in {"select", "write", "decrement", "commit"}
    /\ faultsLeft > 0
    /\ faultsLeft' = faultsLeft - 1
    /\ Catch(c)
    /\ UNCHANGED <<recipe, market, delivered, readyQ, cooking, commits, notified, redeliveriesLeft, emptyLeft>>

\* a retry that asks for one unit more of every ingredient than the failed attempt
RetryWithMore(t) ==
    [requestId |-> t.requestId, orderId |-> t.orderId,
     recipeSnapshot |-> [n \in DOMAIN t.recipeSnapshot |->
                            <<t.recipeSnapshot[n][1], t.recipeSnapshot[n][2] + 1>>]]

\* this.handleIngredientRequest({ requestId, orderId, recipeSnapshot }): the message of a
\* retry is built from the parameters of the scheduleIngredientRetry call
RetryMessage(t) ==
    [requestId |-> t.requestId, orderId |-> t.orderId, recipeSnapshot |-> t.recipeSnapshot]

\* the setTimeout callback of scheduleIngredientRetry: handleIngredientRequest again,
\* with the same requestId, orderId and recipeSnapshot
TimerFires(c) ==
    /\ task[c].pc = "timer"
    /\ UNCHANGED brokerVars
    /\ task' = [task EXCEPT ![c] =
                    [Fresh("select") EXCEPT !.requestId = RetryMessage(task[c]).requestId,
                                            !.orderId = RetryMessage(task[c]).orderId,
                                            !.recipeSnapshot = RetryMessage(task[c]).recipeSnapshot]]
    /\ UNCHANGED <<stock, rows, purchases, status, recipe, market, retryAttempts,
                   delivered, readyQ, cooking, failed, faultsLeft, commits, notified, redeliveriesLeft, emptyLeft>>

----------------------------------------------------------------------------
(* kitchen-service *)

\* a handler that marks the order completed as soon as its ingredients are ready
CompletedAtReady(o) == [status EXCEPT ![o] = "completed"]

\* UPDATE orders SET status = 'preparing' WHERE id = orderId
SetPreparing(o) == [status EXCEPT ![o] = "preparing"]

\* the kitchen consumer callback: JSON.parse, handleIngredientReady (status = 'preparing',
\* then simulateCooking sets the timer), ack
HandleIngredientReady(o) ==
    /\ conn["kitchen"].link
    /\ \E m \in BagToSet(readyQ) :
          /\ m.orderId = o
          /\ readyQ' = readyQ (-) SetToBag({m})
    /\ readyAcks' = [readyAcks EXCEPT ![o].acks = @ + 1]
    /\ UNCHANGED <<conn, consumer, poison, requests>>
    /\ status' = SetPreparing(o)
    /\ cooking' = [cooking EXCEPT ![o] = @ + 1]
    /\ UNCHANGED <<stock, rows, purchases, recipe, market, retryAttempts, task,
                   delivered, failed, faultsLeft, commits, notified, redeliveriesLeft, emptyLeft>>

\* the setTimeout callback of simulateCooking: completeOrder, status = 'completed'
CompleteOrder(o) ==
    /\ cooking[o] > 0
    /\ UNCHANGED brokerVars
    /\ cooking' = [cooking EXCEPT ![o] = @ - 1]
    /\ status' = [status EXCEPT ![o] = "completed"]
    /\ UNCHANGED <<stock, rows, purchases, recipe, market, retryAttempts, task,
                   delivered, readyQ, failed, faultsLeft, commits, notified, redeliveriesLeft, emptyLeft>>

----------------------------------------------------------------------------
(* The consumer callbacks of setupRabbitMQ and the broker connection *)

\* this.db.connect() throws at the top of handleIngredientRequest, before its try block:
\* the error reaches the consumer callback, which nacks the message without requeue;
\* no attempt is made and no retry is scheduled
ConnectFails(o) ==
    /\ status[o] # "none"
    /\ requests[o] > 0
    /\ conn["pantry"].link
    /\ delivered[o] <= MaxRedeliveries
    /\ delivered[o] > 0 => redeliveriesLeft > 0
    /\ faultsLeft > 0
    /\ faultsLeft' = faultsLeft - 1
    /\ redeliveriesLeft' = IF delivered[o] > 0 THEN redeliveriesLeft - 1 ELSE redeliveriesLeft
    /\ delivered' = [delivered EXCEPT ![o] = @ + 1]
    /\ task' = [task EXCEPT ![<<o, delivered[o] + 1>>] = Fresh("done")]
    /\ consumer' = [consumer EXCEPT ![<<o, delivered[o] + 1>>].nacks = @ + 1]
    /\ UNCHANGED <<stock, rows, purchases, status, recipe, market, retryAttempts,
                   readyQ, cooking, failed, commits, notified, emptyLeft,
                   conn, readyAcks, poison, requests>>

\* this.db.connect() throws at the top of handleIngredientReady: nack without requeue,
\* the order keeps its status
KitchenConnectFails(o) ==
    /\ conn["kitchen"].link
    /\ faultsLeft > 0
    /\ faultsLeft' = faultsLeft - 1
    /\ \E m \in BagToSet(readyQ) :
          /\ m.orderId = o
          /\ readyQ' = readyQ (-) SetToBag({m})
    /\ readyAcks' = [readyAcks EXCEPT ![o].nacks = @ + 1]
    /\ UNCHANGED <<stock, rows, purchases, status, recipe, market, retryAttempts, task,
                   delivered, cooking, failed, commits, notified, emptyLeft,
                   redeliveriesLeft, conn, consumer, poison, requests>>

\* a statement of handleIngredientReady throws: its catch block rolls back and swallows
\* the error, the handler returns normally and the message is acknowledged
KitchenQueryFails(o) ==
    /\ conn["kitchen"].link
    /\ faultsLeft > 0
    /\ faultsLeft' = faultsLeft - 1
    /\ \E m \in BagToSet(readyQ) :
          /\ m.orderId = o
          /\ readyQ' = readyQ (-) SetToBag({m})
    /\ readyAcks' = [readyAcks EXCEPT ![o].acks = @ + 1]
    /\ UNCHANGED <<stock, rows, purchases, status, recipe, market, retryAttempts, task,
                   delivered, cooking, failed, commits, notified, emptyLeft,
                   redeliveriesLeft, conn, consumer, poison, requests>>

\* a nack that puts the message back into the queue
NackRequeue(q) == [q EXCEPT !.nacks = @ + 1]

\* this.rabbitChannel?.nack(msg, false, false): the message is dropped from the queue
NackNoRequeue(q) == [q EXCEPT !.queued = @ - 1, !.nacks = @ + 1]

\* a message whose content is not JSON is delivered: JSON.parse throws inside the try of
\* the consumer callback, the catch nacks it; no handler runs
DeliverMalformed(s) ==
    /\ conn[s].link
    /\ poison[s].queued > 0
    /\ poison' = [poison EXCEPT ![s] = NackNoRequeue(@)]
    /\ UNCHANGED <<stock, rows, purchases, status, recipe, market, retryAttempts, task,
                   delivered, readyQ, cooking, failed, commits, notified, emptyLeft,
                   faultsLeft, redeliveriesLeft, conn, consumer, readyAcks, requests>>

\* setupRabbitMQ runs to its end: connect, createChannel, assertExchange, assertQueue,
\* bindQueue, consume
SetupSucceeds(s) ==
    /\ conn[s].setup
    /\ conn' = [conn EXCEPT ![s] = [link |-> TRUE, setup |-> FALSE, timer |-> FALSE]]
    /\ UNCHANGED <<stock, rows, purchases, status, recipe, market, retryAttempts, task,
                   delivered, readyQ, cooking, failed, commits, notified, emptyLeft,
                   faultsLeft, redeliveriesLeft, consumer, readyAcks, poison, requests>>

\* an await of setupRabbitMQ throws: catch (error) { setTimeout(() => this.setupRabbitMQ(), 5000) }
SetupFails(s) ==
    /\ conn[s].setup
    /\ conn' = [conn EXCEPT ![s] = [link |-> FALSE, setup |-> FALSE, timer |-> TRUE]]
    /\ UNCHANGED <<stock, rows, purchases, status, recipe, market, retryAttempts, task,
                   delivered, readyQ, cooking, failed, commits, notified, emptyLeft,
                   faultsLeft, redeliveriesLeft, consumer, readyAcks, poison, requests>>

\* the 5000 ms timer of the catch block fires: setupRabbitMQ again
ReconnectTimer(s) ==
    /\ conn[s].timer
    /\ conn' = [conn EXCEPT ![s] = [link |-> FALSE, setup |-> TRUE, timer |-> FALSE]]
    /\ UNCHANGED <<stock, rows, purchases, status, recipe, market, retryAttempts, task,
                   delivered, readyQ, cooking, failed, commits, notified, emptyLeft,
                   faultsLeft, redeliveriesLeft, consumer, readyAcks, poison, requests>>

\* an established connection is lost: setupRabbitMQ has returned, and it registered no
\* 'close' or 'error' listener on the connection or the channel, so no code runs
ConnectionLost(s) ==
    /\ conn[s].link
    /\ conn' = [conn EXCEPT ![s].link = FALSE]
    /\ UNCHANGED <<stock, rows, purchases, status, recipe, market, retryAttempts, task,
                   delivered, readyQ, cooking, failed, commits, notified, emptyLeft,
                   faultsLeft, redeliveriesLeft, consumer, readyAcks, poison, requests>>

----------------------------------------------------------------------------
(* Initial states: the orders are created (status 'pending') and their     *)
(* ingredient requests are published. Recipes are what createOrder reads   *)
(* from the recipes table.                                                 *)

Pair(i, q) == <<i, q>>

RecipeTexts ==
    { <<Pair("lemon", 1), Pair("rice", 2)>>,
      <<Pair("rice", 1), Pair("lemon", 1)>> }

RecipeBook == {JsonbStore(text) : text \in RecipeTexts}

Sells(S) == [i \in Ingredients |-> S]

InitCommon ==
    /\ purchases = EmptyBag
    /\ retryAttempts = <<>>
    /\ task = [c \in Chains |-> Fresh("none")]
    /\ delivered = [o \in Orders |-> 0]
    /\ readyQ = EmptyBag
    /\ consumer = [c \in Chains |-> [handling |-> FALSE, acks |-> 0, nacks |-> 0]]
    /\ readyAcks = [o \in Orders |-> [acks |-> 0, nacks |-> 0]]
    /\ cooking = [o \in Orders |-> 0]
    /\ failed = [o \in Orders |-> 0]
    /\ commits = [o \in Orders |-> 0]
    /\ notified = [o \in Orders |-> 0]

\* both services have run setupRabbitMQ to its end; no malformed message is queued
InitConnected ==
    /\ conn = [s \in Services |-> [link |-> TRUE, setup |-> FALSE, timer |-> FALSE]]
    /\ poison = [s \in Services |-> [queued |-> 0, nacks |-> 0]]

\* createOrder has published the ingredient request of every order that exists
InitRequested == requests = [o \in Orders |-> IF status[o] = "none" THEN 0 ELSE 1]

\* createOrder: BEGIN, SELECT a recipe, INSERT INTO orders (status 'pending'), COMMIT, and
\* only then requestIngredients, which throws when there is no channel or the channel is
\* closed: the ROLLBACK of the catch block comes after COMMIT, so the order stays
\* persisted and no request was published. start() listens for HTTP requests once its
\* first setupRabbitMQ has returned, with or without a channel
CreateOrder(o) ==
    /\ status[o] = "none"
    /\ ~conn["kitchen"].setup
    /\ \E r \in RecipeBook : recipe' = [recipe EXCEPT ![o] = r]
    /\ status' = [status EXCEPT ![o] = "pending"]
    /\ requests' = IF conn["kitchen"].link THEN [requests EXCEPT ![o] = @ + 1] ELSE requests
    /\ UNCHANGED <<stock, rows, purchases, market, retryAttempts, task, delivered, readyQ,
                   cooking, failed, commits, notified, emptyLeft, faultsLeft,
                   redeliveriesLeft, conn, consumer, readyAcks, poison>>

Ledger(r, l, m, t, c) ==
    [i \in Ingredients |-> CASE i = "rice" -> r [] i = "lemon" -> l [] i = "meat" -> m
                             [] i = "tomato" -> t [] i = "cheese" -> c]

\* two orders whose recipes share both ingredients, on a ledger that is short of rice
\* or has no lemon row; any market answer; a few errors and one repeated delivery
Init ==
    /\ InitCommon
    /\ InitConnected
    /\ status = [o \in Orders |-> "pending"]
    /\ recipe \in {[o \in Orders |-> IF o = 1 THEN JsonbStore(<<Pair("lemon", 1), Pair("rice", 2)>>)
                                     ELSE r2] : r2 \in RecipeBook}
    /\ market = Sells(0..MaxSold)
    /\ faultsLeft = MaxFaults
    /\ emptyLeft = MaxEmpty
    /\ redeliveriesLeft = MaxRedeliveries
    /\ \/ stock = Ledger(3, 0, 0, 0, 0) /\ rows = {"rice"}
       \/ stock = Ledger(1, 1, 0, 0, 0) /\ rows = {"rice", "lemon"}
    /\ InitRequested

\* one order, enough errors to use up its retries, one repeated delivery
InitRetry ==
    /\ InitCommon
    /\ InitConnected
    /\ status = [o \in Orders |-> IF o = 1 THEN "pending" ELSE "none"]
    /\ recipe = [o \in Orders |-> JsonbStore(<<Pair("rice", 1)>>)]
    /\ market = Sells(0..MaxSold)
    /\ faultsLeft = MAX_RETRY_ATTEMPTS + 2
    /\ emptyLeft = MaxEmpty
    /\ redeliveriesLeft = MaxRedeliveries
    /\ stock = Ledger(1, 0, 0, 0, 0) /\ rows = {"rice"}
    /\ InitRequested

\* scenario: the only 3 units of rice, two orders that need 2 each
InitRice ==
    /\ InitCommon
    /\ InitConnected
    /\ status = [o \in Orders |-> "pending"]
    /\ recipe = [o \in Orders |-> JsonbStore(<<Pair("rice", 2)>>)]
    /\ market = Sells(0..MaxSold)
    /\ faultsLeft = 0
    /\ emptyLeft = MaxEmpty
    /\ redeliveriesLeft = 0
    /\ stock = Ledger(3, 0, 0, 0, 0) /\ rows = {"rice"}
    /\ InitRequested

\* scenario: stock {tomato: 1}, order 1 requires {tomato: 2, cheese: 1}, the market sells
\* 1 tomato and 1 cheese on the first call; order 2 requires rice only
InitTomato ==
    /\ InitCommon
    /\ InitConnected
    /\ status = [o \in Orders |-> "pending"]
    /\ recipe = [o \in Orders |-> IF o = 1 THEN JsonbStore(<<Pair("tomato", 2), Pair("cheese", 1)>>)
                                  ELSE JsonbStore(<<Pair("rice", 2)>>)]
    /\ market = [i \in Ingredients |-> IF i \in {"tomato", "cheese"} THEN {1} ELSE 0..MaxSold]
    /\ faultsLeft = 0
    /\ emptyLeft = MaxEmpty
    /\ redeliveriesLeft = 0
    /\ stock = Ledger(0, 0, 0, 1, 0) /\ rows = {"tomato"}
    /\ InitRequested

\* scenario: stock {meat: 0}, order 1 requires meat, the market always answers
\* quantitySold = 0 for meat; order 2 requires rice only
InitMeat ==
    /\ InitCommon
    /\ InitConnected
    /\ status = [o \in Orders |-> "pending"]
    /\ recipe = [o \in Orders |-> IF o = 1 THEN JsonbStore(<<Pair("meat", 1)>>)
                                  ELSE JsonbStore(<<Pair("rice", 2)>>)]
    /\ market = [i \in Ingredients |-> IF i = "meat" THEN {0} ELSE 1..MaxSold]
    /\ faultsLeft = 0
    /\ emptyLeft = MaxEmpty
    /\ redeliveriesLeft = 0
    /\ stock = Ledger(0, 0, 0, 0, 0) /\ rows = {"meat", "rice"}
    /\ InitRequested

\* scenario: order 1 requires rice, which has to be bought; one statement may throw
InitPurchase ==
    /\ InitCommon
    /\ InitConnected
    /\ status = [o \in Orders |-> "pending"]
    /\ recipe = [o \in Orders |-> IF o = 1 THEN JsonbStore(<<Pair("rice", 1)>>)
                                  ELSE JsonbStore(<<Pair("lemon", 1)>>)]
    /\ market = Sells(1..MaxSold)
    /\ faultsLeft = 1
    /\ emptyLeft = 0
    /\ redeliveriesLeft = 0
    /\ stock = Ledger(0, 1, 0, 0, 0) /\ rows = {"rice", "lemon"}
    /\ InitRequested

\* the consumers at work: one order, a malformed message in each queue, a few errors and
\* one repeated delivery
InitBroker ==
    /\ InitCommon
    /\ conn = [s \in Services |-> [link |-> TRUE, setup |-> FALSE, timer |-> FALSE]]
    /\ poison = [s \in Services |-> [queued |-> MaxMalformed, nacks |-> 0]]
    /\ status = [o \in Orders |-> IF o = 1 THEN "pending" ELSE "none"]
    /\ recipe = [o \in Orders |-> JsonbStore(<<Pair("rice", 1)>>)]
    /\ market = Sells(0..MaxSold)
    /\ faultsLeft = MaxFaults
    /\ emptyLeft = MaxEmpty
    /\ redeliveriesLeft = MaxRedeliveries
    /\ stock = Ledger(1, 0, 0, 0, 0) /\ rows = {"rice"}
    /\ InitRequested

\* start(): both services are inside their first setupRabbitMQ
InitConn ==
    /\ InitCommon
    /\ conn = [s \in Services |-> [link |-> FALSE, setup |-> TRUE, timer |-> FALSE]]
    /\ poison = [s \in Services |-> [queued |-> 0, nacks |-> 0]]
    /\ status = [o \in Orders |-> "pending"]
    /\ recipe = [o \in Orders |-> JsonbStore(<<Pair("rice", 1)>>)]
    /\ market = Sells(0..MaxSold)
    /\ faultsLeft = 0
    /\ emptyLeft = MaxEmpty
    /\ redeliveriesLeft = 0
    /\ stock = Ledger(1, 0, 0, 0, 0) /\ rows = {"rice"}
    /\ InitRequested

\* start(): both services are inside their first setupRabbitMQ, no order exists yet
InitOrder ==
    /\ InitCommon
    /\ conn = [s \in Services |-> [link |-> FALSE, setup |-> TRUE, timer |-> FALSE]]
    /\ poison = [s \in Services |-> [queued |-> 0, nacks |-> 0]]
    /\ status = [o \in Orders |-> "none"]
    /\ recipe = [o \in Orders |-> JsonbStore(<<Pair("rice", 1), Pair("lemon", 1)>>)]
    /\ market = Sells(0..MaxSold)
    /\ faultsLeft = 0
    /\ emptyLeft = MaxEmpty
    /\ redeliveriesLeft = 0
    /\ stock = Ledger(1, 1, 0, 0, 0) /\ rows = {"rice", "lemon"}
    /\ InitRequested

\* the purchase loop at work: order 1 requires 2 units of rice, none is in stock, and the
\* market answers anything from 0 to more than what is missing
InitMarket ==
    /\ InitCommon
    /\ InitConnected
    /\ status = [o \in Orders |-> IF o = 1 THEN "pending" ELSE "none"]
    /\ recipe = [o \in Orders |-> JsonbStore(<<Pair("rice", 2)>>)]
    /\ market = Sells(0..MaxOffer)
    /\ faultsLeft = 0
    /\ emptyLeft = MaxMisses
    /\ redeliveriesLeft = 0
    /\ stock = Ledger(0, 0, 0, 0, 0) /\ rows = {"rice"}
    /\ InitRequested

\* two orders that require cheese, which has no stock row (a recipe with a new ingredient,
\* or the stock table after DELETE FROM pantry_stock)
InitNoRow ==
    /\ InitCommon
    /\ InitConnected
    /\ status = [o \in Orders |-> "pending"]
    /\ recipe = [o \in Orders |-> JsonbStore(<<Pair("cheese", 1)>>)]
    /\ market = Sells(0..MaxSold)
    /\ faultsLeft = 0
    /\ emptyLeft = MaxEmpty
    /\ redeliveriesLeft = 0
    /\ stock = Ledger(0, 0, 0, 0, 0) /\ rows = {}
    /\ InitRequested

TaskStep(c) ==
    \/ Select(c)
    \/ MarketCall(c)
    \/ Sleep(c)
    \/ Write(c)
    \/ Decrement(c)
    \/ Commit(c)
    \/ NotifyIngredientsReady(c)

Next ==
    \/ \E o \in Orders : Deliver(o)
    \/ \E c \in Chains : TaskStep(c)
    \/ \E c \in Chains : QueryFails(c)
    \/ \E c \in Chains : NotifyFails(c)
    \/ \E c \in Chains : TimerFires(c)
    \/ \E o \in Orders : HandleIngredientReady(o)
    \/ \E o \in Orders : CompleteOrder(o)

\* the steps of runs in which no statement and no publish throws
NextReserve ==
    \/ \E o \in Orders : Deliver(o)
    \/ \E c \in Chains : TaskStep(c)
    \/ \E o \in Orders : HandleIngredientReady(o)
    \/ \E o \in Orders : CompleteOrder(o)

\* the steps of runs in which only the database's own constraint makes a statement throw
NextNoRow ==
    \/ NextReserve
    \/ \E c \in Chains : TimerFires(c)

\* the steps of the purchase scenario: a purchase INSERT may throw as well
NextPurchase ==
    \/ Next
    \/ \E c \in Chains : PurchaseInsertFails(c)

\* the steps of the consumers: malformed messages and handlers that throw
NextBroker ==
    \/ Next
    \/ \E o \in Orders : ConnectFails(o)
    \/ \E o \in Orders : KitchenConnectFails(o)
    \/ \E o \in Orders : KitchenQueryFails(o)
    \/ \E s \in Services : DeliverMalformed(s)

\* the steps of the connection scenario: setup, its retry timer and the loss of an
\* established connection; a publish on a lost channel throws
NextConn ==
    \/ NextReserve
    \/ \E c \in Chains : NotifyFails(c)
    \/ \E c \in Chains : TimerFires(c)
    \/ \E s \in Services : SetupSucceeds(s)
    \/ \E s \in Services : SetupFails(s)
    \/ \E s \in Services : ReconnectTimer(s)
    \/ \E s \in Services : ConnectionLost(s)

\* the steps of the order side: orders are created while the connections come and go
NextOrder ==
    \/ NextConn
    \/ \E o \in Orders : CreateOrder(o)

\* the event loop runs every callback that is ready, a timer that is due fires, a
\* market call answers or times out, the broker delivers what is queued
Fairness ==
    /\ \A o \in Orders : WF_vars(Deliver(o))
    /\ \A c \in Chains : WF_vars(TaskStep(c))
    /\ \A o \in Orders : WF_vars(HandleIngredientReady(o))
    /\ \A o \in Orders : WF_vars(CompleteOrder(o))

\* a due retry timer fires as well
FairnessRetry ==
    /\ Fairness
    /\ \A c \in Chains : WF_vars(TimerFires(c))

Spec == Init /\ [][Next]_vars
SpecRetry == InitRetry /\ [][Next]_vars
SpecRice == InitRice /\ [][NextReserve]_vars
SpecTomato == InitTomato /\ [][NextReserve]_vars
SpecMeat == InitMeat /\ [][NextReserve]_vars /\ Fairness
SpecPurchase == InitPurchase /\ [][NextPurchase]_vars /\ FairnessRetry
SpecBroker == InitBroker /\ [][NextBroker]_vars
SpecConn == InitConn /\ [][NextConn]_vars
SpecOrder == InitOrder /\ [][NextOrder]_vars
SpecMarket == InitMarket /\ [][NextReserve]_vars
SpecNoRow == InitNoRow /\ [][NextNoRow]_vars

----------------------------------------------------------------------------
(* Properties *)

RECURSIVE SumSoldOver(_, _)
SumSoldOver(B, S) ==
    IF S = {} THEN 0
    ELSE LET r == CHOOSE r \in S : TRUE
         IN r.quantity_sold * B[r] + SumSoldOver(B, S \ {r})

\* sum of quantity_sold over the purchase records of ingredient i in bag B
SoldIn(B, i) == SumSoldOver(B, {r \in DOMAIN B : r.ingredient = i})
SoldTotal(B) == SumSoldOver(B, DOMAIN B)

InFlight(t) == Running(t) \/ t.pc = "timer"
Terminal(o) == status[o] \in {"completed", "cancelled"}
NeverSatisfied(o) == notified[o] = 0

\* C1: the committed quantity of every ingredient is >= 0 in every reachable state,
\* whatever the interleaving of the reservation attempts that reference it
C1_StockNeverNegative == \A i \in Ingredients : stock[i] >= 0

\* both orders have reserved rice and used the ledger up
C1_Witness == commits[1] >= 1 /\ commits[2] >= 1 /\ stock["rice"] = 0

\* the step that commits the reservation of task c: every required ingredient of its
\* order goes to what it was, plus what the transaction bought for it, minus exactly
\* the required quantity; no other ingredient changes
C2_CommitStep(c) ==
    LET o == OrderOf(c)
        t == task[c]
    IN /\ t.pc = "commit"
       /\ task'[c].pc = "notify"
       /\ t.txDec = Keys(o)
       /\ \A i \in Ingredients :
            stock'[i] = IF i \in Keys(o)
                        THEN stock[i] + SoldIn(t.txPurch, i) - ReqOf(o, i)
                        ELSE stock[i]

\* C2: reservation is all-or-nothing. The committed ledger changes only in the step
\* that commits a reservation, and then every required ingredient of that order has
\* been decremented by exactly its required quantity; an attempt that ends in any other
\* way (insufficient, error, rollback) leaves every committed quantity as it was
C2_AllOrNothing == [][stock' = stock \/ \E c \in Chains : C2_CommitStep(c)]_vars

\* an attempt was rolled back after it had already decremented an ingredient
C2_Witness == \E c \in Chains : task[c].pc = "timer" /\ task[c].discarded >= 1

\* an order that was never satisfied is cancelled once it has failed more than
\* MAX_RETRY_ATTEMPTS times, and no order is cancelled with fewer failures
C3_CancelledAtSixth ==
    \A o \in Orders :
        /\ (failed[o] > MAX_RETRY_ATTEMPTS /\ NeverSatisfied(o)) => status[o] = "cancelled"
        /\ status[o] = "cancelled" => failed[o] > MAX_RETRY_ATTEMPTS

\* the step that cancels an order: the counter stood at MAX_RETRY_ATTEMPTS, it is
\* discarded, and the attempt that failed ends without a timer
C3_CancelStep ==
    \A o \in Orders :
        (status[o] # "cancelled" /\ status'[o] = "cancelled") =>
            /\ Get(o) = MAX_RETRY_ATTEMPTS
            /\ o \notin DOMAIN retryAttempts'
            /\ NeverSatisfied(o) => failed'[o] = MAX_RETRY_ATTEMPTS + 1
            /\ \E c \in Chains : /\ OrderOf(c) = o
                                 /\ Running(task[c])
                                 /\ task'[c].pc = "done"

\* C3 (as amended): an order whose attempts never succeed is cancelled by its failed
\* attempt number MAX_RETRY_ATTEMPTS + 1, that is after 5 retries were scheduled: that
\* failure sets status = cancelled, no earlier failure does, and the attempt that
\* cancels schedules no further retry
C3_RetryBound == [](C3_CancelledAtSixth) /\ [][C3_CancelStep]_vars

\* an order that was never satisfied has been cancelled by its sixth failure
C3_Witness ==
    \E o \in Orders : status[o] = "cancelled" /\ failed[o] = MAX_RETRY_ATTEMPTS + 1
                      /\ NeverSatisfied(o)

\* C3 as stated: already the failure of attempt 5 sets status = cancelled
C3_Original ==
    \A o \in Orders :
        (failed[o] >= MAX_RETRY_ATTEMPTS /\ NeverSatisfied(o)) => status[o] = "cancelled"

\* C4: once an order is completed or cancelled, no reservation attempt runs and no
\* retry timer is pending for it
C4_NoAttemptAfterTerminal ==
    \A c \in Chains : Terminal(OrderOf(c)) => ~InFlight(task[c])

\* C5: scenario, stock {meat: 0}, order 1 requires meat, the market always answers
\* quantitySold = 0: the status of the order eventually becomes cancelled
C5_EventuallyCancelled == <>(status[1] = "cancelled")

\* C6: for every purchase loop, the sum of quantity_sold over the records the loop has
\* inserted equals its totalPurchased, which is the value the loop returns
C6_LoopSum ==
    \A c \in Chains :
        task[c].pc \in {"buy", "sleep", "write"} =>
            /\ SoldTotal(task[c].loopPurch) = task[c].totalPurchased
            /\ task[c].pc = "write" =>
                 /\ task[c].totalPurchased >= task[c].quantity
                 /\ task[c].currentStock >= Req(c)

\* a loop has returned after two purchases
C6_Witness ==
    \E c \in Chains : /\ task[c].pc = "write"
                      /\ task[c].totalPurchased = 2
                      /\ BagCardinality(task[c].loopPurch) = 2

\* the orders whose reservation has committed
C7_Committed == {o \in Orders : commits[o] >= 1}

\* C7: scenario, 3 rice and two orders that need 2 each. The two attempts never hold the
\* rice row together; the first to commit consumes 2 of the 3 without a purchase and leaves
\* 1; the other one reads 1 < 2 after that commit and is satisfied by buying the missing
\* unit, so the two never both consume from the original 3
C7_RiceScenario ==
    /\ Cardinality({c \in Chains : "rice" \in task[c].held}) <= 1
    /\ Cardinality(C7_Committed) = 0 => stock["rice"] = 3 /\ purchases = EmptyBag
    /\ Cardinality(C7_Committed) = 1 => stock["rice"] = 1 /\ purchases = EmptyBag
    /\ Cardinality(C7_Committed) = 2 => /\ SoldIn(purchases, "rice") >= 1
                                         /\ stock["rice"] = SoldIn(purchases, "rice") - 1
    /\ \A c \in Chains :
          task[c].pc \in {"buy", "sleep", "write"} =>
              /\ Cardinality(C7_Committed) = 1
              /\ commits[OrderOf(c)] = 0
              /\ task[c].quantity = 1
    /\ \A o \in Orders : commits[o] <= 1 /\ failed[o] = 0

\* both orders are served: one from stock, the other with one purchased unit
C7_Witness ==
    /\ commits[1] = 1 /\ commits[2] = 1
    /\ stock["rice"] = 0
    /\ BagCardinality(purchases) = 1

\* the two purchase records of the scenario
C8_TwoRecords ==
    SetToBag({[ingredient |-> "tomato", quantity_requested |-> 1, quantity_sold |-> 1],
              [ingredient |-> "cheese", quantity_requested |-> 1, quantity_sold |-> 1]})

\* the purchase records of tomato and cheese in bag B
C8_Ours(B) == [r \in {x \in DOMAIN B : x.ingredient \in {"tomato", "cheese"}} |-> B[r]]

\* C8: scenario, stock {tomato: 1}, order 1 requires {tomato: 2, cheese: 1}, the market
\* sells 1 on the first call for each: the first attempt commits, leaves tomato 0 and
\* cheese 0, and inserts exactly two purchase records
C8_TomatoScenario ==
    /\ failed[1] = 0
    /\ task[<<1, 1>>].pc \in {"notify", "done"} =>
          /\ commits[1] = 1
          /\ stock["tomato"] = 0 /\ stock["cheese"] = 0
          /\ {"tomato", "cheese"} \subseteq rows
          /\ C8_Ours(purchases) = C8_TwoRecords
    /\ task[<<1, 1>>].pc \notin {"notify", "done"} =>
          /\ commits[1] = 0
          /\ stock["tomato"] = 1
          /\ C8_Ours(purchases) = EmptyBag

\* the first attempt of order 1 has committed and notified the kitchen
C8_Witness == task[<<1, 1>>].pc = "done" /\ notified[1] = 1 /\ stock["tomato"] = 0

\* C9: at most one attempt (a running handleIngredientRequest or a pending retry timer)
\* is in flight per order
C9_OneInFlight ==
    \A o \in Orders : Cardinality({c \in Chains : OrderOf(c) = o /\ InFlight(task[c])}) <= 1

\* task c waits for a lock that task d holds
WaitsFor(c, d) ==
    /\ c # d
    /\ \/ task[c].pc = "select" /\ Ing(c) \in rows /\ Ing(c) \in task[d].held
       \/ task[c].pc = "write" /\ Ing(c) \notin task[c].held /\ Ing(c) \in task[d].txIns

Blockers(S) == {d \in Chains : \E c \in S : WaitsFor(c, d)}

RECURSIVE ReachFrom(_, _)
ReachFrom(S, n) == IF n = 0 THEN {} ELSE Blockers(S) \cup ReachFrom(Blockers(S), n - 1)

\* C10: every task takes its row locks in one global order of the ingredient names, and
\* no set of tasks waits for each other's locks in a cycle
C10_LockOrder ==
    /\ \A c \in Chains :
          task[c].pc \in {"select", "buy", "sleep", "write"} =>
              \A h \in task[c].held \ {Ing(c)} : JsonbBefore(h, Ing(c))
    /\ \A c \in Chains :
          (\E d \in Chains : WaitsFor(c, d)) => c \notin ReachFrom({c}, Cardinality(Chains))

\* a task waits for a row lock that a task of the other order holds, and both recipes
\* need both ingredients
C10_Witness ==
    \E c, d \in Chains : /\ OrderOf(c) # OrderOf(d)
                         /\ WaitsFor(c, d)
                         /\ Keys(OrderOf(c)) = Keys(OrderOf(d))
                         /\ Cardinality(task[d].held) = 2

\* a step in which the attempt of task c ends as a failure (scheduleIngredientRetry is
\* called: a retry is scheduled or the order is cancelled)
FailureStep(c) ==
    /\ Running(task[c])
    /\ task'[c].pc \in {"timer", "done"}
    /\ failed'[OrderOf(c)] = failed[OrderOf(c)] + 1

\* C11: an attempt that fails leaves the committed ledger and the committed purchase
\* records as they were before it: it has committed nothing, and the step that ends it
\* changes nothing
C11_FailedAttemptLeavesNoTrace ==
    [][\A c \in Chains :
          FailureStep(c) => /\ \A i \in Ingredients : task[c].cStock[i] = 0
                            /\ task[c].cPurch = EmptyBag
                            /\ stock' = stock
                            /\ purchases' = purchases]_vars

\* C12: every purchase made inside an attempt is in the committed purchase history, and
\* its quantity in the committed ledger, once the transaction of the attempt has ended,
\* whether the attempt succeeded or failed; committed purchase records are never removed
C12_PurchasesDurable ==
    [][/\ purchases \sqsubseteq purchases'
       /\ \A c \in Chains :
             (InTransaction(task[c]) /\ ~InTransaction(task'[c])) =>
                 /\ purchases' = purchases (+) task[c].txPurch
                 /\ \A i \in Ingredients :
                       stock'[i] = stock[i] + SoldIn(task[c].txPurch, i)
                                   - (IF task'[c].pc = "notify" /\ i \in Keys(OrderOf(c))
                                      THEN ReqOf(OrderOf(c), i) ELSE 0)]_vars

\* C13: every failed attempt sets the status of its order to waiting_ingredients and
\* schedules one retry, or at exhaustion cancels the order
C13_FailureSetsWaiting ==
    [][\A c \in Chains :
          FailureStep(c) =>
              \/ status'[OrderOf(c)] = "waiting_ingredients" /\ task'[c].pc = "timer"
              \/ status'[OrderOf(c)] = "cancelled" /\ task'[c].pc = "done"]_vars

\* C14: a database operation that fails inside an attempt leads to the end of the
\* attempt in the retry path (rolled back, counted by scheduleIngredientRetry)
C14_DbFailureIsRetried ==
    \A c \in Chains : (task[c].aborted ~> task[c].pc \in {"timer", "done"})

\* the required-ingredient map of order o
RequiredMap(o) == [i \in Keys(o) |-> ReqOf(o, i)]

\* every ready notification in flight carries the requestId of the request of its
\* order and the required-ingredient map of that order
C15_Messages ==
    \A m \in BagToSet(readyQ) :
        /\ m.requestId = RequestId(m.orderId)
        /\ m.availableIngredients = RequiredMap(m.orderId)

\* the commit of a reservation takes from every ingredient exactly the quantity that the
\* notification of this attempt will carry
C15_CommitStep ==
    \A c \in Chains :
        (task[c].pc = "commit" /\ task'[c].pc = "notify") =>
            /\ DOMAIN task'[c].availableIngredients = Keys(OrderOf(c))
            /\ \A i \in Keys(OrderOf(c)) :
                  stock[i] + SoldIn(task[c].txPurch, i) - stock'[i]
                      = task'[c].availableIngredients[i]

\* C15: the ready notification of a successful reservation carries the requestId and
\* orderId of the request and an availableIngredients map equal to the required map of
\* the order, which is exactly what the reservation took from each ingredient
C15_ReadyNotification == [](C15_Messages) /\ [][C15_CommitStep]_vars

\* a notification is in flight for an order of two ingredients, one of them bought
C15_Witness ==
    \E m \in BagToSet(readyQ) : /\ Cardinality(DOMAIN m.availableIngredients) = 2
                                 /\ BagCardinality(purchases) >= 1

\* C16: a ready notification is published only after a commit of its order, and a
\* committed reservation gets exactly one notification: once no task of the order stands
\* between its commit and its publish, the two counts are equal
C16_OneNotificationPerCommit ==
    \A o \in Orders :
        /\ notified[o] <= commits[o]
        /\ (\A c \in Chains : OrderOf(c) = o => task[c].pc # "notify") =>
              notified[o] = commits[o]

\* the messages of order o still queued for the kitchen
ReadyQueued(o) == BagCardinality([m \in {x \in DOMAIN readyQ : x.orderId = o} |-> readyQ[m]])

\* every delivered request is settled at most once, not while the invocation that the
\* consumer awaits is running, and exactly once when that invocation is over; the
\* kitchen has settled every notification it has consumed exactly once
C17_Settled ==
    /\ \A c \in Chains :
          LET k == consumer[c] IN
          /\ k.acks + k.nacks <= 1
          /\ k.handling => (k.acks + k.nacks = 0 /\ Running(task[c]))
          /\ (task[c].pc # "none" /\ ~k.handling) => k.acks + k.nacks = 1
    /\ \A o \in Orders :
          readyAcks[o].acks + readyAcks[o].nacks + ReadyQueued(o) = notified[o]

\* an ack is sent in the step in which the awaited invocation returns, a nack in a
\* step in which it throws before it has changed anything
C17_SettleStep ==
    \A c \in Chains :
        /\ consumer'[c].acks > consumer[c].acks =>
              /\ consumer[c].handling /\ Running(task[c])
              /\ task'[c].pc \in {"timer", "done"}
        /\ consumer'[c].nacks > consumer[c].nacks =>
              /\ task[c].pc = "none" /\ task'[c].pc = "done"
              /\ UNCHANGED <<stock, purchases, status, retryAttempts>>

C18_Discarded ==
    /\ \A s \in Services : poison[s].queued + poison[s].nacks = MaxMalformed
    /\ \A o \in Orders :
          (poison["pantry"].nacks > 0 /\ status[o] # "none" /\ delivered[o] = 0) =>
              ENABLED Deliver(o)

\* the step that discards a malformed message changes nothing else
C18_DiscardStep ==
    poison' # poison =>
        UNCHANGED <<stock, rows, purchases, status, retryAttempts, task, readyQ, cooking,
                    consumer, readyAcks, conn>>

\* C18: a malformed message is discarded and never redelivered, changes no stock, order
\* status or retry counter, and does not stop the consumer
C18_MalformedDiscarded == [](C18_Discarded) /\ [][C18_DiscardStep]_vars

\* the malformed messages were discarded and a request was served afterwards or before
C18_Witness ==
    /\ \A s \in Services : poison[s].nacks = MaxMalformed
    /\ notified[1] >= 1 /\ status[1] = "completed"

\* C19: whenever the broker connection of a service is down, the service is inside
\* setupRabbitMQ or its 5 s reconnect timer is pending
C19_DownImpliesReconnecting ==
    \A s \in Services : ~conn[s].link => (conn[s].setup \/ conn[s].timer)

\* the delays of the spec, in milliseconds
C20_Delays == <<30000, 60000, 120000, 300000, 600000>>

\* the step that schedules a retry: the retry number n of the order (n = the counter
\* after the step) waits C20_Delays[n]; for an order that was never served and is not
\* yet cancelled, n is the number of the attempt that has just failed
C20_ScheduleStep ==
    \A c \in Chains :
        (FailureStep(c) /\ task'[c].pc = "timer") =>
            LET o == OrderOf(c) IN
            /\ o \in DOMAIN retryAttempts'
            /\ retryAttempts'[o] \in 1..Len(C20_Delays)
            /\ task'[c].delay = C20_Delays[retryAttempts'[o]]
            /\ (NeverSatisfied(o) /\ status[o] # "cancelled") => retryAttempts'[o] = failed'[o]

\* C20: the retries of an order wait 30 s, 60 s, 120 s, 300 s, 600 s in that order: the
\* retry scheduled at the failure of attempt n waits the n-th delay, and a retry beyond
\* the table would wait the last value
C20_RetryDelays ==
    /\ [][C20_ScheduleStep]_vars
    /\ [](\A n \in Len(C20_Delays)..(Len(C20_Delays) + 2) : Delay(n) = 600000)

\* the fifth retry of an order is pending with the last delay of the table
C20_Witness ==
    \E c \in Chains : /\ task[c].pc = "timer" /\ task[c].delay = 600000
                      /\ failed[OrderOf(c)] = 5

\* C21: no retry counter entry exists for an order whose retry state machine has reached
\* Satisfied (an attempt has reserved and notified) or Cancelled
C21_CounterDiscarded ==
    \A o \in Orders :
        (notified[o] >= 1 \/ status[o] = "cancelled") => o \notin DOMAIN retryAttempts

\* C22: the status of an order that exists is one of the five values, and a status of
\* completed or cancelled is never changed again
C22_StatusTerminal ==
    /\ [](\A o \in Orders : status[o] # "none" => status[o] \in OrderStatus)
    /\ [][\A o \in Orders : Terminal(o) => status'[o] = status[o]]_vars

\* C23: every order that createOrder has persisted has exactly one published ingredient
\* request
C23_OneRequestPerOrder ==
    \A o \in Orders : status[o] # "none" => requests[o] = 1

\* C24 (as amended): the purchase loop calls the market while quantityObtained is less
\* than neededQuantity, so the value it returns is at least neededQuantity, and it was
\* still short before the last answer: it equals neededQuantity unless the last answer
\* was larger than what was missing, and then it exceeds it by the surplus
C24_ReturnsAtLeastNeeded ==
    \A c \in Chains :
        task[c].pc = "write" =>
            /\ task[c].totalPurchased >= task[c].quantity
            /\ task[c].totalPurchased - task[c].quantitySold < task[c].quantity
            /\ task[c].quantitySold > 0

\* a loop has returned more than was needed
C24_Witness ==
    \E c \in Chains : /\ task[c].pc = "write"
                      /\ task[c].totalPurchased > task[c].quantity
                      /\ BagCardinality(task[c].loopPurch) = 2

\* C24 as stated: whenever the loop returns, the returned quantity equals neededQuantity
C24_Original ==
    \A c \in Chains : task[c].pc = "write" => task[c].totalPurchased = task[c].quantity

\* the delay of a running loop is within [floor, ceiling]
C25_Range ==
    \A c \in Chains :
        task[c].pc \in {"buy", "sleep"} =>
            /\ task[c].backoffDelay >= BACKOFF_FLOOR
            /\ task[c].backoffDelay <= BACKOFF_CEILING

\* the steps of a loop: it starts at the floor; a purchase resets the delay to the floor,
\* any other answer leaves it; every sleep is followed by the doubling, up to the ceiling
C25_LoopStep ==
    \A c \in Chains :
        /\ (task[c].pc = "select" /\ task'[c].pc = "buy") =>
               task'[c].backoffDelay = BACKOFF_FLOOR
        /\ (task[c].pc = "buy" /\ task'[c].pc \in {"sleep", "write"}) =>
               task'[c].backoffDelay = IF task'[c].quantitySold > 0 THEN BACKOFF_FLOOR
                                       ELSE task[c].backoffDelay
        /\ (task[c].pc = "sleep" /\ task'[c].pc = "buy") =>
               \/ task'[c].backoffDelay = 2 * task[c].backoffDelay
               \/ /\ task'[c].backoffDelay = BACKOFF_CEILING
                  /\ 2 * task[c].backoffDelay >= BACKOFF_CEILING

\* C25 (as amended): the delay starts at the floor (1 s); after every call that leaves the
\* shortfall unmet the loop sleeps for the current delay and then doubles it, capped at
\* the ceiling (60 s), whether that call failed, sold nothing or sold a part; a purchase
\* resets the delay to the floor before that sleep; the delay is always in [1 s, 60 s]
C25_Backoff == [](C25_Range) /\ [][C25_LoopStep]_vars

\* a loop has reached the ceiling after a partial purchase had reset the delay
C25_Witness ==
    \E c \in Chains : /\ task[c].pc = "buy"
                      /\ task[c].backoffDelay = BACKOFF_CEILING
                      /\ task[c].totalPurchased > 0

\* C25 as stated: only a failed or empty call doubles the delay, so the delay is still at
\* the floor at the call that follows a purchase
C25_Original ==
    [][\A c \in Chains :
          (task[c].pc = "sleep" /\ task'[c].pc = "buy" /\ task[c].quantitySold > 0) =>
              task'[c].backoffDelay = BACKOFF_FLOOR]_vars

\* the ingredients whose quantity the running attempt of task c has read
HasRead(c) ==
    LET t == task[c] IN
    IF t.pc \in {"decrement", "commit"} THEN Keys(OrderOf(c))
    ELSE IF t.pc \in {"buy", "sleep", "write"} THEN {Snapshot(c)[n][1] : n \in 1..t.idx}
    ELSE IF t.pc = "select" THEN {Snapshot(c)[n][1] : n \in 1..(t.idx - 1)}
    ELSE {}

\* every row an open transaction has written is a row whose lock it holds
C26_WritesHoldLock ==
    \A c \in Chains : (DOMAIN task[c].txSet \cup task[c].txDec) \subseteq task[c].held

\* C26: every write to the quantity of an ingredient is made by a transaction that holds
\* the row lock of that ingredient, and no two open transactions have both read the
\* quantity of the same ingredient, whether it has a stock row or not
C26_ReadsSerialized ==
    /\ C26_WritesHoldLock
    /\ \A c, d \in Chains :
          (c # d /\ InTransaction(task[c]) /\ InTransaction(task[d])) =>
              HasRead(c) \cap HasRead(d) = {}

\* the counter of an order never exceeds the number of its failed attempts: it grows by
\* one with every retry that is scheduled
C27_CounterCountsRetries == \A o \in Orders : Get(o) <= failed[o]

\* the step that cancels an order is a call of scheduleIngredientRetry that finds
\* MAX_RETRY_ATTEMPTS retries already scheduled
C27_CancelStep ==
    \A o \in Orders :
        (status'[o] = "cancelled" /\ status[o] # "cancelled") =>
            /\ Get(o) >= MAX_RETRY_ATTEMPTS
            /\ failed[o] >= MAX_RETRY_ATTEMPTS
            /\ \E c \in Chains : OrderOf(c) = o /\ FailureStep(c)

\* C27: an order is set to cancelled only by the attempt cap of scheduleIngredientRetry:
\* no status becomes cancelled while fewer than MAX_RETRY_ATTEMPTS retries have been
\* scheduled for the order
C27_CancelledOnlyAtCap == [](C27_CounterCountsRetries) /\ [][C27_CancelStep]_vars

\* an order was cancelled by the cap although reservations of it had committed
C27_Witness ==
    \E o \in Orders : status[o] = "cancelled" /\ commits[o] >= 1
                      /\ failed[o] > MAX_RETRY_ATTEMPTS

\* C28: under fair scheduling, with the channels up and every message delivered, every
\* created order eventually reaches a terminal status (completed or cancelled)
C28_EventuallyTerminal ==
    \A o \in Orders : (status[o] = "pending") ~> Terminal(o)

\* a cooking timer is pending only for an order of which a reservation has committed
\* and a ready notification was consumed and acknowledged
C29_Cooking ==
    \A o \in Orders : cooking[o] > 0 => (commits[o] >= 1 /\ readyAcks[o].acks >= 1)

\* every change of a status is made by one of four steps: the insufficient branch of an
\* attempt (waiting_ingredients), the cap of scheduleIngredientRetry (cancelled), the
\* handler of a ready notification of a committed reservation (preparing, and it starts
\* the cooking timer), the cooking timer (completed); the timer is set only by a step
\* that leaves the order preparing
C29_StatusStep ==
    \A o \in Orders :
        /\ cooking'[o] > cooking[o] => status'[o] = "preparing"
        /\ status'[o] # status[o] =>
              \/ /\ status'[o] = "waiting_ingredients"
                 /\ \E c \in Chains : /\ OrderOf(c) = o /\ FailureStep(c)
                                      /\ task[c].pc = "decrement"
              \/ /\ status'[o] = "cancelled"
                 /\ \E c \in Chains : OrderOf(c) = o /\ FailureStep(c)
                 /\ Get(o) >= MAX_RETRY_ATTEMPTS
              \/ /\ status'[o] = "preparing"
                 /\ commits[o] >= 1 /\ notified[o] >= 1
                 /\ ReadyQueued(o)' = ReadyQueued(o) - 1
                 /\ readyAcks'[o].acks = readyAcks[o].acks + 1
                 /\ cooking'[o] = cooking[o] + 1
              \/ /\ status'[o] = "completed"
                 /\ cooking[o] > 0
                 /\ cooking'[o] = cooking[o] - 1

\* C29: a status becomes preparing only after a reservation of the order has committed
\* and its ready notification was consumed, becomes completed only by the cooking timer
\* that the step to preparing has set, and changes only in the reservation failure path,
\* the cancellation of the retry scheduler, the ready-notification handler and the
\* cooking timer
C29_StatusPaths == [](C29_Cooking) /\ [][C29_StatusStep]_vars

\* an order was completed by the cooking timer after a failed attempt and a retry
C29_Witness ==
    \E o \in Orders : /\ status[o] = "completed" /\ cooking[o] = 0
                      /\ readyAcks[o].acks >= 1 /\ failed[o] >= 1 /\ commits[o] = 1

\* the tasks other than c that hold a row lock all belong to orders whose ingredients are
\* disjoint from those of the order of c
C30_OthersDisjoint(c) ==
    \A d \in Chains \ {c} :
        task[d].held # {} => Keys(OrderOf(c)) \cap Keys(OrderOf(d)) = {}

\* C30: attempts whose ingredient sets are disjoint never block each other: whatever
\* locks the other holds, the next statement of an attempt (SELECT ... FOR UPDATE, the
\* top-up, COMMIT) can run, and it waits for no lock of the other
C30_DisjointNeverBlock ==
    \A c \in Chains :
        C30_OthersDisjoint(c) =>
            /\ task[c].pc = "select" => ENABLED Select(c)
            /\ task[c].pc = "write" => ENABLED Write(c)
            /\ task[c].pc = "commit" => ENABLED Commit(c)
            /\ \A d \in Chains : ~WaitsFor(c, d)

\* two attempts with disjoint ingredients are inside their transactions, each holds its
\* row lock and each is about to commit
C30_Witness ==
    \E c, d \in Chains : /\ Keys(OrderOf(c)) \cap Keys(OrderOf(d)) = {}
                         /\ task[c].held # {} /\ task[d].held # {}
                         /\ task[c].pc = "commit" /\ task[d].pc = "commit"
                         /\ BagCardinality(task[c].txPurch) = 1

\* an attempt that has left the check phase has found every ingredient obtainable, and a
\* purchase loop that has returned has covered its shortfall
C31_CheckPhase ==
    \A c \in Chains :
        /\ task[c].pc \in {"decrement", "commit"} => task[c].allIngredientsObtainable
        /\ task[c].pc = "write" => /\ task[c].totalPurchased >= task[c].quantity
                                   /\ ~Shortfall(task[c].currentStock, Req(c))
        /\ status[OrderOf(c)] # "waiting_ingredients"

\* a failed attempt did not end in the insufficient branch: the status it leaves is the
\* one it found, or cancelled
C31_FailureStepIsException ==
    \A c \in Chains :
        FailureStep(c) =>
            /\ ~(task[c].pc = "decrement" /\ ~task[c].allIngredientsObtainable)
            /\ status'[OrderOf(c)] \in {status[OrderOf(c)], "cancelled"}

\* C31: buyFromMarket never returns while it has bought less than the shortfall, so an
\* attempt whose check phase completes has every ingredient at or above its required
\* quantity, the insufficient branch is never taken, and every retry is scheduled from
\* the exception path
C31_InsufficientNeverTaken == [](C31_CheckPhase) /\ [][C31_FailureStepIsException]_vars

\* an attempt has completed its check phase with a purchase, after an earlier attempt of
\* the order had failed and was retried
C31_Witness ==
    \E c \in Chains : /\ task[c].pc = "decrement"
                      /\ BagCardinality(task[c].txPurch) >= 1
                      /\ failed[OrderOf(c)] >= 1

\* C32: over all the reservation attempts of an order, at most one reservation
\* transaction commits, so the committed stock is decremented at most once per order
C32_AtMostOneCommit == \A o \in Orders : commits[o] <= 1

\* the quantities in stock before any request is handled, in the retry scenario
C33_Initial == Ledger(1, 0, 0, 0, 0)

RECURSIVE C33_Reserved(_, _)
\* the sum of the required quantities of ingredient i over the committed reservations
\* of the orders in S
C33_Reserved(S, i) ==
    IF S = {} THEN 0
    ELSE LET o == CHOOSE o \in S : TRUE
         IN (IF i \in Keys(o) THEN commits[o] * ReqOf(o, i) ELSE 0)
            + C33_Reserved(S \ {o}, i)

\* what the committed ledger holds of ingredient i beyond what it started with
C33_Balance(i) == SoldIn(purchases, i) - C33_Reserved(Orders, i)

\* C33: in every committed state and for every ingredient, the stock quantity is the
\* initial quantity, plus the quantity_sold of the persisted purchase records of the
\* ingredient, minus its required quantity in every committed reservation; every step
\* changes the three together
C33_StockConservation ==
    /\ [](\A i \in Ingredients : stock[i] = C33_Initial[i] + C33_Balance(i))
    /\ [][\A i \in Ingredients : stock'[i] - stock[i] = C33_Balance(i)' - C33_Balance(i)]_vars

\* reservations have committed twice and stock was bought in between
C33_Witness ==
    /\ commits[1] >= 2
    /\ BagCardinality(purchases) >= 1
    /\ failed[1] >= 2

\* scenario: two orders with disjoint recipes and enough stock for every reservation that
\* can commit, so that every failure comes from a statement or a publish that throws
InitCounter ==
    /\ InitCommon
    /\ InitConnected
    /\ status = [o \in Orders |-> "pending"]
    /\ recipe = [o \in Orders |-> IF o = 1 THEN JsonbStore(<<Pair("rice", 1)>>)
                                  ELSE JsonbStore(<<Pair("lemon", 1)>>)]
    /\ market = Sells(1..MaxSold)
    /\ faultsLeft = MAX_RETRY_ATTEMPTS + 1
    /\ emptyLeft = 0
    /\ redeliveriesLeft = MaxRedeliveries
    /\ stock = Ledger(9, 9, 0, 0, 0) /\ rows = {"rice", "lemon"}
    /\ InitRequested

\* the pantry-service steps of the counter scenario: deliveries and redeliveries, the
\* reservation transaction, the publish, their failures and the retry timers
NextCounter ==
    \/ \E o \in Orders : Deliver(o)
    \/ \E c \in Chains : Select(c) \/ Decrement(c) \/ Commit(c) \/ NotifyIngredientsReady(c)
    \/ \E c \in Chains : QueryFails(c)
    \/ \E c \in Chains : NotifyFails(c)
    \/ \E c \in Chains : TimerFires(c)

SpecCounter == InitCounter /\ [][NextCounter]_vars

\* every stored retry counter is between 1 and MAX_RETRY_ATTEMPTS
C34_Range == \A o \in DOMAIN retryAttempts : retryAttempts[o] \in 1..MAX_RETRY_ATTEMPTS

\* a step that changes the counter of an order is a step of exactly one attempt, an
\* attempt of that order, which fails or finishes its publish; it adds one to the counter
\* or removes the entry, and leaves the counter of every other order as it was
C34_OwnAttemptOnly ==
    \A o \in Orders :
        Get(o)' # Get(o) =>
            /\ \E c \in Chains :
                  /\ OrderOf(c) = o
                  /\ FailureStep(c) \/ (task[c].pc = "notify" /\ task'[c].pc = "done")
                  /\ \A d \in Chains \ {c} : task'[d] = task[d]
            /\ Get(o)' \in {Get(o) + 1, 0}
            /\ \A p \in Orders \ {o} : Get(p)' = Get(p)

\* C34: under every interleaving of attempts, several retry chains of one order included,
\* every entry of the retry counter map is at least 1 and at most MAX_RETRY_ATTEMPTS, and
\* the counter of an order is never changed by an attempt for another order
C34_CounterBounded == [](C34_Range) /\ [][C34_OwnAttemptOnly]_vars

\* two retry chains of order 1 wait for their timers with the counter at its maximum,
\* while order 2 has a counter of its own
C34_Witness ==
    /\ task[<<1, 1>>].pc = "timer"
    /\ task[<<1, 2>>].pc = "timer"
    /\ Get(1) = MAX_RETRY_ATTEMPTS
    /\ Get(2) >= 1

\* the message an invocation of handleIngredientRequest works on
MessageOf(t) ==
    [requestId |-> t.requestId, orderId |-> t.orderId, recipeSnapshot |-> t.recipeSnapshot]

\* every attempt, first or retried, and every pending retry timer holds the request that
\* the kitchen published for the order
C35_OriginalRequest ==
    \A c \in Chains :
        (Running(task[c]) \/ task[c].pc = "timer") =>
            MessageOf(task[c]) = IngredientRequest(OrderOf(c))

\* a failing attempt hands its message to the timer, the timer hands it to the next
\* attempt, and the recipe snapshot of an existing order is never rewritten
C35_RetryStep ==
    /\ \A c \in Chains :
          \/ FailureStep(c) /\ task'[c].pc = "timer"
          \/ task[c].pc = "timer" /\ task'[c].pc = "select"
          => MessageOf(task'[c]) = MessageOf(task[c])
    /\ \A o \in Orders : status[o] # "none" => recipe'[o] = recipe[o]

\* C35: every retry invokes the reservation again with the requestId, the orderId and
\* the required-ingredient map of the original request; the required quantities never
\* change between the attempts of an order
C35_SameRequestOnRetry == [](C35_OriginalRequest) /\ [][C35_RetryStep]_vars

\* the second retry of a request is running
C35_Witness ==
    /\ task[<<1, 1>>].pc = "select"
    /\ Get(1) >= 2
    /\ failed[1] >= 2
    /\ delivered[1] = 1

\* an invocation is inside the purchase loop of buyFromMarket
C36_InLoop(c) == task[c].pc \in {"buy", "sleep"}

\* C36: when the market keeps answering with quantitySold > 0, the purchase loop
\* terminates: buyFromMarket eventually returns, and the attempt eventually commits or
\* rolls back
C36_PurchaseLoopTerminates ==
    \A c \in Chains :
        /\ C36_InLoop(c) ~> ~C36_InLoop(c)
        /\ C36_InLoop(c) ~> (task[c].pc \in {"notify", "timer", "done"})

====
